---- MODULE Spec2Model ----
(***************************************************************************)
(* Model of three late lint passes of clippy_lints:                        *)
(*   NeedlessBool   (needless_bool.rs)  if c { true } else { false }       *)
(*   BoolComparison (needless_bool.rs)  x == true                          *)
(*   Transmute      (transmute.rs)      transmute::<A, B>(arg)             *)
(* The host visits one expression node and hands it to each pass in turn;  *)
(* every pass appends the diagnostics it emits to diags.                   *)
(***************************************************************************)
EXTENDS Integers, Sequences, FiniteSets, TLC

VARIABLES e, pc, diags, matched

vars == <<e, pc, diags, matched>>

\* Nesting depth of the expressions inside the branches and operands visited.
MaxDepth == 1
\* Nesting depth of pointer and reference types.
TyDepth == 2

\* Option<T>: None is the empty sequence, Some(x) the one-element sequence.
None == <<>>
Some(x) == <<x>>

(***************************************************************************)
(* Spans and source text.  A span is the text it covers plus the flag      *)
(* telling whether the code map can still give that text back.             *)
(***************************************************************************)
\* A TLA+ string cannot hold the character U+0060 (the backquote that format!
\* puts around code); "~" stands for it and occurs in no source text here.
BACKTICK == "~"

Span(text, lost) == [text |-> text, lost |-> lost]
NoSpan == Span("_", FALSE)

snippet_opt(span) == IF span.lost THEN None ELSE Some(span.text)
snippet(span, default) == IF span.lost THEN default ELSE span.text

(***************************************************************************)
(* hir::Expr, hir::Block, hir::Stmt.                                       *)
(***************************************************************************)
LitBool(v) == [kind |-> "Bool", value |-> v]
LitInt == [kind |-> "Int"]
ExprLit(lit) == [node |-> "ExprLit", lit |-> lit, span |-> NoSpan]
ExprPath(name) == [node |-> "ExprPath", name |-> name, span |-> NoSpan]
ExprRet(arg) == [node |-> "ExprRet", arg |-> arg, span |-> NoSpan]
ExprBlock(block) == [node |-> "ExprBlock", block |-> block, span |-> NoSpan]
ExprIf(pred, then_block, else_expr) ==
    [node |-> "ExprIf", pred |-> pred, then_block |-> then_block,
     else_expr |-> else_expr, span |-> NoSpan]
ExprBinary(op, left_side, right_side) ==
    [node |-> "ExprBinary", op |-> op, left_side |-> left_side,
     right_side |-> right_side, span |-> NoSpan]
\* A call: the callee, the argument, and the types the type tables give for
\* the argument (in arg.ty) and for the call (in ty).
ExprCall(path_expr, arg, to_ty) ==
    [node |-> "ExprCall", path_expr |-> path_expr, args |-> <<arg>>, ty |-> to_ty,
     span |-> NoSpan]
\* The callee of a call: its variant and the definition its path resolves to.
Callee(node, def_path) == [node |-> node, def_path |-> def_path]
\* An argument expression of which only the variant and the type are read.
ExprArg(node, from_ty, span) == [node |-> node, ty |-> from_ty, span |-> span]

StmtSemi(expr) == [node |-> "StmtSemi", expr |-> expr]
StmtDecl == [node |-> "StmtDecl"]
Block(stmts, expr) == [stmts |-> stmts, expr |-> expr]

WithSpan(expr, span) == [expr EXCEPT !.span = span]

(***************************************************************************)
(* enum Expression { Bool(bool), RetBool(bool), Other }                    *)
(***************************************************************************)
Bool(v) == [tag |-> "Bool", value |-> v]
RetBool(v) == [tag |-> "RetBool", value |-> v]
Other == [tag |-> "Other"]

RECURSIVE fetch_bool_block(_)
RECURSIVE fetch_bool_expr(_)

\* fetch_bool_block without the test that the single statement is a return.
fetch_bool_block_keeps_ret(block) ==
    IF block.stmts = <<>> /\ block.expr # None
    THEN fetch_bool_expr(block.expr[1])
    ELSE IF Len(block.stmts) = 1 /\ block.expr = None
         THEN IF block.stmts[1].node = "StmtSemi"
              THEN fetch_bool_expr(block.stmts[1].expr)
              ELSE Other
         ELSE Other

fetch_bool_block(block) ==
    IF block.stmts = <<>> /\ block.expr # None
    THEN fetch_bool_expr(block.expr[1])
    ELSE IF Len(block.stmts) = 1 /\ block.expr = None
         THEN IF block.stmts[1].node = "StmtSemi"
              THEN IF block.stmts[1].expr.node = "ExprRet"
                   THEN fetch_bool_expr(block.stmts[1].expr)
                   ELSE Other
              ELSE Other
         ELSE Other

fetch_bool_expr(expr) ==
    CASE expr.node = "ExprBlock" -> fetch_bool_block(expr.block)
      [] expr.node = "ExprLit" ->
            IF expr.lit.kind = "Bool" THEN Bool(expr.lit.value) ELSE Other
      [] expr.node = "ExprRet" /\ expr.arg # None ->
            LET inner == fetch_bool_expr(expr.arg[1])
            IN  IF inner.tag = "Bool" THEN RetBool(inner.value) ELSE Other
      [] OTHER -> Other

(***************************************************************************)
(* Diagnostics (utils::span_lint, utils::span_lint_and_then).              *)
(***************************************************************************)
Diagnostic(lint, msg, sugg) == [lint |-> lint, msg |-> msg, sugg |-> sugg]
span_lint(lint, msg) == <<Diagnostic(lint, msg, None)>>
span_lint_and_then(lint, msg, sugg) == <<Diagnostic(lint, msg, sugg)>>

(***************************************************************************)
(* NeedlessBool::check_expr                                                *)
(***************************************************************************)
reduce(pred, hint, not) ==
    LET snip == snippet_opt(pred.span)
        text == IF snip # None THEN BACKTICK \o not \o snip[1] \o BACKTICK ELSE hint
    IN  span_lint_and_then("NEEDLESS_BOOL",
                           "this if-then-else expression returns a bool literal",
                           Some(text))

NeedlessBoolMatch(expr) ==
    <<fetch_bool_block(expr.then_block), fetch_bool_expr(expr.else_expr[1])>>

\* NeedlessBoolLint comparing the values of the two branches only, not their kinds.
NeedlessBoolLint_ignores_kind(expr) ==
    IF expr.node = "ExprIf" /\ expr.else_expr # None
    THEN LET m == NeedlessBoolMatch(expr)
         IN  IF m[1] # Other /\ m[2] # Other /\ m[1].value = m[2].value
             THEN span_lint("NEEDLESS_BOOL",
                      "this if-then-else expression will always return "
                          \o (IF m[1].value THEN "true" ELSE "false"))
             ELSE <<>>
    ELSE <<>>

NeedlessBoolLint(expr) ==
    IF expr.node = "ExprIf" /\ expr.else_expr # None
    THEN LET m == NeedlessBoolMatch(expr)
         IN  CASE m = <<RetBool(TRUE), RetBool(TRUE)>> \/ m = <<Bool(TRUE), Bool(TRUE)>> ->
                    span_lint("NEEDLESS_BOOL",
                              "this if-then-else expression will always return true")
               [] m = <<RetBool(FALSE), RetBool(FALSE)>> \/ m = <<Bool(FALSE), Bool(FALSE)>> ->
                    span_lint("NEEDLESS_BOOL",
                              "this if-then-else expression will always return false")
               [] m = <<RetBool(TRUE), RetBool(FALSE)>> ->
                    reduce(expr.pred, "its predicate", "return ")
               [] m = <<Bool(TRUE), Bool(FALSE)>> ->
                    reduce(expr.pred, "its predicate", "")
               [] m = <<RetBool(FALSE), RetBool(TRUE)>> ->
                    reduce(expr.pred, BACKTICK \o "!" \o BACKTICK \o " and its predicate", "return !")
               [] m = <<Bool(FALSE), Bool(TRUE)>> ->
                    reduce(expr.pred, BACKTICK \o "!" \o BACKTICK \o " and its predicate", "!")
               [] OTHER -> <<>>
    ELSE <<>>

(***************************************************************************)
(* BoolComparison::check_expr                                              *)
(***************************************************************************)
BoolComparisonMatch(expr) ==
    <<fetch_bool_expr(expr.left_side), fetch_bool_expr(expr.right_side)>>

\* BoolComparisonLint firing on a boolean literal on the right whatever the left is.
BoolComparisonLint_any_left(expr) ==
    IF expr.node = "ExprBinary" /\ expr.op = "BiEq"
    THEN LET m == BoolComparisonMatch(expr)
         IN  IF m[2].tag = "Bool"
             THEN span_lint_and_then("BOOL_COMPARISON",
                      "equality checks against true are unnecessary",
                      Some((IF m[2].value THEN "" ELSE "!")
                               \o snippet(expr.left_side.span, "..")))
             ELSE <<>>
    ELSE <<>>

BoolComparisonLint(expr) ==
    IF expr.node = "ExprBinary" /\ expr.op = "BiEq"
    THEN LET m == BoolComparisonMatch(expr)
         IN  CASE m = <<Bool(TRUE), Other>> ->
                    span_lint_and_then("BOOL_COMPARISON",
                        "equality checks against true are unnecessary",
                        Some(snippet(expr.right_side.span, "..")))
               [] m = <<Other, Bool(TRUE)>> ->
                    span_lint_and_then("BOOL_COMPARISON",
                        "equality checks against true are unnecessary",
                        Some(snippet(expr.left_side.span, "..")))
               [] m = <<Bool(FALSE), Other>> ->
                    span_lint_and_then("BOOL_COMPARISON",
                        "equality checks against false can be replaced by a negation",
                        Some("!" \o snippet(expr.right_side.span, "..")))
               [] m = <<Other, Bool(FALSE)>> ->
                    span_lint_and_then("BOOL_COMPARISON",
                        "equality checks against false can be replaced by a negation",
                        Some("!" \o snippet(expr.left_side.span, "..")))
               [] OTHER -> <<>>
    ELSE <<>>

(***************************************************************************)
(* ty::TypeVariants, ty::TypeAndMut and their Display.                     *)
(***************************************************************************)
TypeAndMut(ty, mutbl) == [ty |-> ty, mutbl |-> mutbl]
TyInt == [sty |-> "TyInt", name |-> "i32"]
TyUint == [sty |-> "TyUint", name |-> "u8"]
TyFloat == [sty |-> "TyFloat", name |-> "f32"]
TyChar == [sty |-> "TyChar", name |-> "char"]
TyStruct == [sty |-> "TyStruct", name |-> "T"]
TyRef(mt) == [sty |-> "TyRef", mt |-> mt]
TyRawPtr(mt) == [sty |-> "TyRawPtr", mt |-> mt]
mk_ptr(mt) == TyRawPtr(mt)

RECURSIVE TyToString(_)
TyToString(ty) ==
    CASE ty.sty = "TyRef" ->
            (IF ty.mt.mutbl = "MutMutable" THEN "&mut " ELSE "&") \o TyToString(ty.mt.ty)
      [] ty.sty = "TyRawPtr" ->
            (IF ty.mt.mutbl = "MutMutable" THEN "*mut " ELSE "*const ")
                \o TyToString(ty.mt.ty)
      [] OTHER -> ty.name

(***************************************************************************)
(* Transmute::check_expr                                                   *)
(***************************************************************************)
\* RefToPtrSugg comparing the pointee types only, not the mutabilities.
RefToPtrSugg_pointee_only(arg, rty, ptr_ty, to_ty) ==
    IF ptr_ty.ty = rty.ty
    THEN arg \o " as " \o TyToString(to_ty)
    ELSE arg \o " as " \o TyToString(mk_ptr(rty)) \o " as " \o TyToString(to_ty)

RefToPtrSugg(arg, rty, ptr_ty, to_ty) ==
    IF ptr_ty = rty
    THEN arg \o " as " \o TyToString(to_ty)
    ELSE arg \o " as " \o TyToString(mk_ptr(rty)) \o " as " \o TyToString(to_ty)

\* PtrToRefSugg choosing the dereference by the mutability of the source pointer.
PtrToRefSugg_source_mutbl(arg, arg_node, from_pty, to_rty) ==
    LET deref == IF from_pty.mutbl = "MutMutable" THEN "&mut *" ELSE "&*"
        cast == IF from_pty.mutbl = "MutMutable" THEN "*mut" ELSE "*const"
    IN  IF from_pty.ty = to_rty.ty
        THEN IF arg_node \in {"ExprPath", "ExprCall", "ExprMethodCall", "ExprBlock"}
             THEN deref \o arg
             ELSE deref \o "(" \o arg \o ")"
        ELSE deref \o "(" \o arg \o " as " \o cast \o " " \o TyToString(to_rty.ty) \o ")"

\* PtrToRefSugg leaving the parentheses off a path only.
PtrToRefSugg_path_only(arg, arg_node, from_pty, to_rty) ==
    LET deref == IF to_rty.mutbl = "MutMutable" THEN "&mut *" ELSE "&*"
        cast == IF to_rty.mutbl = "MutMutable" THEN "*mut" ELSE "*const"
    IN  IF from_pty.ty = to_rty.ty
        THEN IF arg_node = "ExprPath"
             THEN deref \o arg
             ELSE deref \o "(" \o arg \o ")"
        ELSE deref \o "(" \o arg \o " as " \o cast \o " " \o TyToString(to_rty.ty) \o ")"

PtrToRefSugg(arg, arg_node, from_pty, to_rty) ==
    LET deref == IF to_rty.mutbl = "MutMutable" THEN "&mut *" ELSE "&*"
        cast == IF to_rty.mutbl = "MutMutable" THEN "*mut" ELSE "*const"
    IN  IF from_pty.ty = to_rty.ty
        THEN IF arg_node \in {"ExprPath", "ExprCall", "ExprMethodCall", "ExprBlock"}
             THEN deref \o arg
             ELSE deref \o "(" \o arg \o ")"
        ELSE deref \o "(" \o arg \o " as " \o cast \o " " \o TyToString(to_rty.ty) \o ")"

\* MatchArm trying the pointer-to-reference arm before the two crosspointer arms.
MatchArm_ptr_to_ref_first(from_ty, to_ty) ==
    IF from_ty = to_ty THEN 1
    ELSE IF from_ty.sty = "TyRef" /\ to_ty.sty = "TyRawPtr" THEN 2
    ELSE IF from_ty.sty \in {"TyInt", "TyUint"} /\ to_ty.sty = "TyRawPtr" THEN 3
    ELSE IF from_ty.sty \in {"TyFloat", "TyChar"} /\ to_ty.sty \in {"TyRef", "TyRawPtr"}
         THEN 4
    ELSE IF from_ty.sty = "TyRawPtr" /\ to_ty.sty = "TyRef" THEN 7
    ELSE IF from_ty.sty = "TyRawPtr" /\ from_ty.mt.ty = to_ty THEN 5
    ELSE IF to_ty.sty = "TyRawPtr" /\ to_ty.mt.ty = from_ty THEN 6
    ELSE 8

\* MatchArm without the arm for equal types.
MatchArm_without_identity(from_ty, to_ty) ==
    IF from_ty.sty = "TyRef" /\ to_ty.sty = "TyRawPtr" THEN 2
    ELSE IF from_ty.sty \in {"TyInt", "TyUint"} /\ to_ty.sty = "TyRawPtr" THEN 3
    ELSE IF from_ty.sty \in {"TyFloat", "TyChar"} /\ to_ty.sty \in {"TyRef", "TyRawPtr"}
         THEN 4
    ELSE IF from_ty.sty = "TyRawPtr" /\ from_ty.mt.ty = to_ty THEN 5
    ELSE IF to_ty.sty = "TyRawPtr" /\ to_ty.mt.ty = from_ty THEN 6
    ELSE IF from_ty.sty = "TyRawPtr" /\ to_ty.sty = "TyRef" THEN 7
    ELSE 8

\* The arm of the match on (&from_ty.sty, &to_ty.sty) that is taken: the arms
\* are tried in the order written, 8 is the final `_ => return`.
MatchArm(from_ty, to_ty) ==
    IF from_ty = to_ty THEN 1
    ELSE IF from_ty.sty = "TyRef" /\ to_ty.sty = "TyRawPtr" THEN 2
    ELSE IF from_ty.sty \in {"TyInt", "TyUint"} /\ to_ty.sty = "TyRawPtr" THEN 3
    ELSE IF from_ty.sty \in {"TyFloat", "TyChar"} /\ to_ty.sty \in {"TyRef", "TyRawPtr"}
         THEN 4
    ELSE IF from_ty.sty = "TyRawPtr" /\ from_ty.mt.ty = to_ty THEN 5
    ELSE IF to_ty.sty = "TyRawPtr" /\ to_ty.mt.ty = from_ty THEN 6
    ELSE IF from_ty.sty = "TyRawPtr" /\ to_ty.sty = "TyRef" THEN 7
    ELSE 8

\* The body of each arm.
ArmLint(arm, from_ty, to_ty, arg) ==
    LET snip == snippet_opt(arg.span)
        from == BACKTICK \o TyToString(from_ty) \o BACKTICK
        to == BACKTICK \o TyToString(to_ty) \o BACKTICK
    IN  CASE arm = 1 ->
               span_lint("USELESS_TRANSMUTE",
                         "transmute from a type (" \o from \o ") to itself")
          [] arm = 2 ->
               span_lint_and_then("USELESS_TRANSMUTE",
                   "transmute from a reference to a pointer",
                   IF snip # None
                   THEN Some(RefToPtrSugg(snip[1], from_ty.mt, to_ty.mt, to_ty))
                   ELSE None)
          [] arm = 3 ->
               span_lint_and_then("USELESS_TRANSMUTE",
                   "transmute from an integer to a pointer",
                   IF snip # None
                   THEN Some(snip[1] \o " as " \o TyToString(to_ty))
                   ELSE None)
          [] arm = 4 ->
               span_lint("WRONG_TRANSMUTE",
                         "transmute from a " \o from \o " to a pointer")
          [] arm = 5 ->
               span_lint("CROSSPOINTER_TRANSMUTE",
                         "transmute from a type (" \o from
                             \o ") to the type that it points to (" \o to \o ")")
          [] arm = 6 ->
               span_lint("CROSSPOINTER_TRANSMUTE",
                         "transmute from a type (" \o from
                             \o ") to a pointer to that type (" \o to \o ")")
          [] arm = 7 ->
               span_lint_and_then("TRANSMUTE_PTR_TO_REF",
                   "transmute from a pointer type (" \o from
                       \o ") to a reference type (" \o to \o ")",
                   IF snip # None
                   THEN Some(PtrToRefSugg(snip[1], arg.node, from_ty.mt, to_ty.mt))
                   ELSE None)
          [] OTHER -> <<>>

TransmuteMatch(from_ty, to_ty, arg) ==
    ArmLint(MatchArm(from_ty, to_ty), from_ty, to_ty, arg)

TransmuteLint(expr) ==
    IF expr.node = "ExprCall"
    THEN IF expr.path_expr.node = "ExprPath"
         THEN IF expr.path_expr.def_path = "core::intrinsics::transmute"
              THEN TransmuteMatch(expr.args[1].ty, expr.ty, expr.args[1])
              ELSE <<>>
         ELSE <<>>
    ELSE <<>>

(***************************************************************************)
(* The nodes the host hands to the passes.                                 *)
(***************************************************************************)
\* Source text of an expression, as the code map holds it.
RECURSIVE SourceText(_)
StmtText(stmt) ==
    IF stmt.node = "StmtSemi" THEN SourceText(stmt.expr) \o "; " ELSE "let y = 1; "
BlockText(block) ==
    "{ " \o (IF Len(block.stmts) > 0 THEN StmtText(block.stmts[1]) ELSE "")
         \o (IF Len(block.stmts) > 1 THEN StmtText(block.stmts[2]) ELSE "")
         \o (IF block.expr # None THEN SourceText(block.expr[1]) \o " " ELSE "") \o "}"
SourceText(expr) ==
    CASE expr.node = "ExprLit" ->
            IF expr.lit.kind = "Bool"
            THEN (IF expr.lit.value THEN "true" ELSE "false")
            ELSE "1"
      [] expr.node = "ExprPath" -> expr.name
      [] expr.node = "ExprRet" ->
            IF expr.arg = None THEN "return" ELSE "return " \o SourceText(expr.arg[1])
      [] expr.node = "ExprBlock" -> BlockText(expr.block)
      [] OTHER -> "if c { true } else { false }"

Spanned(expr, lost) == WithSpan(expr, Span(SourceText(expr), lost))

Leaves ==
    {ExprLit(LitBool(TRUE)), ExprLit(LitBool(FALSE)), ExprLit(LitInt), ExprPath("x"),
     ExprRet(None)}

\* The blocks whose statements and trailing expression come from X: no
\* statement, one statement, one statement and a trailing expression, two
\* statements.
BlocksOver(X) ==
       {Block(<<>>, None), Block(<<StmtDecl>>, None)}
    \cup {Block(<<>>, Some(x)) : x \in X}
    \cup {Block(<<StmtSemi(x)>>, None) : x \in X}
    \cup {Block(<<StmtSemi(x)>>, Some(ExprLit(LitBool(TRUE)))) : x \in Leaves}
    \cup {Block(<<StmtDecl, StmtSemi(x)>>, None) : x \in Leaves}

RECURSIVE Exprs(_)
Exprs(d) ==
    IF d = 0
    THEN Leaves
    ELSE LET X == Exprs(d - 1)
         IN  Leaves \cup {ExprRet(Some(x)) : x \in X}
                    \cup {ExprBlock(b) : b \in BlocksOver(X)}

InnerIf ==
    ExprIf(ExprPath("d"), Block(<<>>, Some(ExprLit(LitBool(TRUE)))),
           Some(ExprBlock(Block(<<>>, Some(ExprLit(LitBool(FALSE)))))))

Preds == {Spanned(ExprPath("c"), lost) : lost \in BOOLEAN}

\* An else branch is a block or another if.
ElseExprs ==
    {None, Some(InnerIf)} \cup {Some(ExprBlock(b)) : b \in BlocksOver(Exprs(MaxDepth))}

IfNodes ==
    {ExprIf(p, t, el) : p \in Preds, t \in BlocksOver(Exprs(MaxDepth + 1)), el \in ElseExprs}

Operands == {Spanned(x, lost) : x \in Exprs(MaxDepth), lost \in BOOLEAN}

BinaryNodes ==
    {ExprBinary(op, l, r) : op \in {"BiEq", "BiNe"}, l \in Operands, r \in Operands}

RECURSIVE Tys(_)
Tys(d) ==
    IF d = 0
    THEN {TyInt, TyUint, TyFloat, TyChar, TyStruct}
    ELSE LET X == Tys(d - 1)
         IN  X \cup {TyRef(TypeAndMut(t, m)) : t \in X, m \in {"MutMutable", "MutImmutable"}}
               \cup {TyRawPtr(TypeAndMut(t, m)) : t \in X, m \in {"MutMutable", "MutImmutable"}}

ArgShapes ==
    {<<"ExprPath", "p">>, <<"ExprCall", "f(p)">>, <<"ExprMethodCall", "v.get()">>,
     <<"ExprBlock", "{ p }">>, <<"ExprBinary", "a + b">>, <<"ExprUnary", "*pp">>,
     <<"ExprCast", "a as usize">>, <<"ExprField", "s.p">>, <<"ExprIndex", "v[0]">>}

Args(from_ty) ==
       {ExprArg(a[1], from_ty, Span(a[2], FALSE)) : a \in ArgShapes}
    \cup {ExprArg("ExprPath", from_ty, Span("p", TRUE))}

Callees ==
    {Callee("ExprPath", "core::intrinsics::transmute"), Callee("ExprPath", "core::mem::swap"),
     Callee("ExprField", "")}

TransmuteCall(arg, to_ty) ==
    ExprCall(Callee("ExprPath", "core::intrinsics::transmute"), arg, to_ty)

\* Calls that are no transmute: another function, and a callee that is no path.
OtherCalls ==
    {ExprCall(c, ExprArg("ExprPath", TyInt, Span("p", FALSE)),
              TyRawPtr(TypeAndMut(TyInt, "MutImmutable"))) : c \in Callees}

(***************************************************************************)
(* The host: one node, one pass.  pc is "visit" before the pass has seen   *)
(* the node and "done" after; matched holds what the pass matched on.      *)
(***************************************************************************)
InitVisit(nodes) ==
    /\ e \in nodes
    /\ pc = "visit"
    /\ diags = <<>>
    /\ matched = None

InitTransmute ==
    /\ \/ \E from_ty \in Tys(TyDepth), to_ty \in Tys(TyDepth) :
            \E arg \in Args(from_ty) : e = TransmuteCall(arg, to_ty)
       \/ e \in OtherCalls \cup {ExprPath("p")}
    /\ pc = "visit"
    /\ diags = <<>>
    /\ matched = None

NeedlessBool_check_expr ==
    /\ pc = "visit"
    /\ diags' = diags \o NeedlessBoolLint(e)
    /\ matched' = IF e.node = "ExprIf" /\ e.else_expr # None
                  THEN Some(NeedlessBoolMatch(e))
                  ELSE None
    /\ pc' = "done"
    /\ UNCHANGED e

BoolComparison_check_expr ==
    /\ pc = "visit"
    /\ diags' = diags \o BoolComparisonLint(e)
    /\ matched' = IF e.node = "ExprBinary" /\ e.op = "BiEq"
                  THEN Some(BoolComparisonMatch(e))
                  ELSE None
    /\ pc' = "done"
    /\ UNCHANGED e

Transmute_check_expr ==
    /\ pc = "visit"
    /\ diags' = diags \o TransmuteLint(e)
    /\ matched' = None
    /\ pc' = "done"
    /\ UNCHANGED e

SpecNeedlessBool ==
    InitVisit(IfNodes \cup {InnerIf.pred, ExprLit(LitBool(TRUE))})
        /\ [][NeedlessBool_check_expr]_vars

SpecBoolComparison ==
    InitVisit(BinaryNodes \cup {InnerIf}) /\ [][BoolComparison_check_expr]_vars

SpecTransmute ==
    InitTransmute /\ [][Transmute_check_expr]_vars

(***************************************************************************)
(* Properties of NeedlessBool::check_expr (SpecNeedlessBool).              *)
(***************************************************************************)
Done == pc = "done"
TwoArmedIf == e.node = "ExprIf" /\ e.else_expr # None
BoolName(v) == IF v THEN "true" ELSE "false"
OneDiag(lint, msg, sugg) == diags = <<Diagnostic(lint, msg, sugg)>>

\* C1: when the text of the condition is recoverable, the replacement of
\* (true, false) is exactly that text, of (false, true) "!" and the text, of
\* (return true, return false) "return " and the text, of (return false,
\* return true) "return !" and the text, with no other character added.
C1_ReplacementIsConditionText ==
    (Done /\ TwoArmedIf /\ snippet_opt(e.pred.span) # None) =>
        LET m == matched[1]
            c == e.pred.span.text
        IN  /\ m = <<Bool(TRUE), Bool(FALSE)>> =>
                    (Len(diags) = 1 /\ diags[1].sugg = Some(c))
            /\ m = <<Bool(FALSE), Bool(TRUE)>> =>
                    (Len(diags) = 1 /\ diags[1].sugg = Some("!" \o c))
            /\ m = <<RetBool(TRUE), RetBool(FALSE)>> =>
                    (Len(diags) = 1 /\ diags[1].sugg = Some("return " \o c))
            /\ m = <<RetBool(FALSE), RetBool(TRUE)>> =>
                    (Len(diags) = 1 /\ diags[1].sugg = Some("return !" \o c))

\* C2: branches of the same kind and the same value v give exactly one
\* diagnostic, "... will always return v", without a replacement; branches of
\* different kinds, or an unclassified branch (an else that is itself an if
\* among them), give no diagnostic.
C2_SameValueOrSilent ==
    (Done /\ TwoArmedIf) =>
        LET t == matched[1][1]
            el == matched[1][2]
        IN  /\ (t # Other /\ t = el) =>
                    OneDiag("NEEDLESS_BOOL",
                            "this if-then-else expression will always return "
                                \o BoolName(t.value),
                            None)
            /\ (t = Other \/ el = Other \/ t.tag # el.tag) => diags = <<>>
            /\ e.else_expr[1].node = "ExprIf" => (el = Other /\ diags = <<>>)

C2_Witness ==
    /\ Done /\ TwoArmedIf
    /\ matched = Some(<<RetBool(FALSE), RetBool(FALSE)>>)
    /\ OneDiag("NEEDLESS_BOOL", "this if-then-else expression will always return false",
               None)

\* C8: a block without statements classifies as its trailing expression; a
\* block of exactly one statement, a return of something that classifies as
\* Boolean(v), and no trailing expression classifies as ReturnedBoolean(v);
\* every other block is Unclassified.  A literal v is Boolean(v) and
\* `return v` is ReturnedBoolean(v).
RECURSIVE ClassOfExpr(_)
ClassOfBlock(block) ==
    IF block.stmts = <<>> /\ block.expr # None
    THEN ClassOfExpr(block.expr[1])
    ELSE IF /\ Len(block.stmts) = 1
            /\ block.expr = None
            /\ block.stmts[1].node = "StmtSemi"
            /\ block.stmts[1].expr.node = "ExprRet"
            /\ block.stmts[1].expr.arg # None
            /\ ClassOfExpr(block.stmts[1].expr.arg[1]).tag = "Bool"
         THEN RetBool(ClassOfExpr(block.stmts[1].expr.arg[1]).value)
         ELSE Other
ClassOfExpr(expr) ==
    IF expr.node = "ExprLit" /\ expr.lit.kind = "Bool"
    THEN Bool(expr.lit.value)
    ELSE IF expr.node = "ExprRet" /\ expr.arg # None /\ ClassOfExpr(expr.arg[1]).tag = "Bool"
    THEN RetBool(ClassOfExpr(expr.arg[1]).value)
    ELSE IF expr.node = "ExprBlock"
    THEN ClassOfBlock(expr.block)
    ELSE Other

C8_BlockClassification ==
    (Done /\ TwoArmedIf) =>
        /\ matched[1][1] = ClassOfBlock(e.then_block)
        /\ matched[1][2] = ClassOfExpr(e.else_expr[1])
        /\ \A v \in BOOLEAN :
              /\ fetch_bool_expr(ExprLit(LitBool(v))) = Bool(v)
              /\ fetch_bool_expr(ExprRet(Some(ExprLit(LitBool(v))))) = RetBool(v)

\* A then-branch `{ return { true }; }` beside an else `{ { x; } }`.
C8_Witness ==
    /\ Done /\ TwoArmedIf
    /\ e.then_block =
          Block(<<StmtSemi(ExprRet(Some(ExprBlock(Block(<<>>, Some(ExprLit(LitBool(TRUE))))))))>>,
                None)
    /\ e.else_expr[1] = ExprBlock(Block(<<>>, Some(ExprBlock(Block(<<StmtSemi(ExprPath("x"))>>, None)))))
    /\ matched = Some(<<RetBool(TRUE), Other>>)

\* C7: when the text needed for the replacement cannot be recovered, the
\* diagnostic is emitted without a replacement.
NeededSpan ==
    CASE e.node = "ExprIf" -> e.pred.span
      [] e.node = "ExprBinary" ->
            IF fetch_bool_expr(e.left_side) = Other THEN e.left_side.span
            ELSE e.right_side.span
      [] e.node = "ExprCall" -> e.args[1].span
      [] OTHER -> NoSpan

C7_NoTextNoReplacement ==
    (Done /\ NeededSpan.lost) => \A i \in 1..Len(diags) : diags[i].sugg = None

(***************************************************************************)
(* Properties of BoolComparison::check_expr (SpecBoolComparison).          *)
(***************************************************************************)
\* C3: a binary expression gets a diagnostic exactly when its operator is
\* equality and one operand classifies as Boolean(b), the other as
\* Unclassified; the replacement is the text of the unclassified operand for
\* b = true and "!" and that text for b = false (the text being recoverable).
C3_ComparisonDiagnosed ==
    (Done /\ e.node = "ExprBinary") =>
        LET l == fetch_bool_expr(e.left_side)
            r == fetch_bool_expr(e.right_side)
            lit == IF l = Other THEN r ELSE l
            other == IF l = Other THEN e.left_side ELSE e.right_side
            fires == /\ e.op = "BiEq"
                     /\ \/ (l.tag = "Bool" /\ r = Other)
                        \/ (l = Other /\ r.tag = "Bool")
        IN  /\ fires <=> diags # <<>>
            /\ fires =>
                  /\ Len(diags) = 1
                  /\ diags[1].lint = "BOOL_COMPARISON"
                  /\ diags[1].sugg # None
                  /\ ~other.span.lost =>
                        diags[1].sugg =
                            Some((IF lit.value THEN "" ELSE "!") \o other.span.text)

\* `{ x } == false` with the text of the left operand at hand.
C3_Witness ==
    /\ Done
    /\ e.node = "ExprBinary" /\ e.op = "BiEq"
    /\ e.left_side = Spanned(ExprBlock(Block(<<>>, Some(ExprPath("x")))), FALSE)
    /\ fetch_bool_expr(e.right_side) = Bool(FALSE)
    /\ Len(diags) = 1
    /\ diags[1].sugg = Some("!{ x }")

(***************************************************************************)
(* Properties of Transmute::check_expr (SpecTransmute).                    *)
(***************************************************************************)
IsTransmute ==
    /\ e.node = "ExprCall"
    /\ e.path_expr = Callee("ExprPath", "core::intrinsics::transmute")
FromTy == e.args[1].ty
ToTy == e.ty
ArgText == e.args[1].span.text
HasArgText == ~e.args[1].span.lost
Quoted(ty) == BACKTICK \o TyToString(ty) \o BACKTICK
ConstPtr(ty) == TyRawPtr(TypeAndMut(ty, "MutImmutable"))
MutPtr(ty) == TyRawPtr(TypeAndMut(ty, "MutMutable"))
ConstRef(ty) == TyRef(TypeAndMut(ty, "MutImmutable"))
MutRef(ty) == TyRef(TypeAndMut(ty, "MutMutable"))

\* The conditions of the eight categories, in the order of the specification.
Rule(i, from_ty, to_ty) ==
    CASE i = 1 -> from_ty = to_ty
      [] i = 2 -> from_ty.sty = "TyRef" /\ to_ty.sty = "TyRawPtr"
      [] i = 3 -> from_ty.sty \in {"TyInt", "TyUint"} /\ to_ty.sty = "TyRawPtr"
      [] i = 4 -> from_ty.sty \in {"TyFloat", "TyChar"} /\ to_ty.sty \in {"TyRef", "TyRawPtr"}
      [] i = 5 -> from_ty.sty = "TyRawPtr" /\ from_ty.mt.ty = to_ty
      [] i = 6 -> to_ty.sty = "TyRawPtr" /\ to_ty.mt.ty = from_ty
      [] i = 7 -> from_ty.sty = "TyRawPtr" /\ to_ty.sty = "TyRef"
      [] OTHER -> TRUE
FirstRule(from_ty, to_ty) ==
    CHOOSE i \in 1..8 : Rule(i, from_ty, to_ty) /\ \A j \in 1..(i - 1) : ~Rule(j, from_ty, to_ty)
RuleLint(i) ==
    CASE i \in {1, 2, 3} -> "USELESS_TRANSMUTE"
      [] i = 4 -> "WRONG_TRANSMUTE"
      [] i \in {5, 6} -> "CROSSPOINTER_TRANSMUTE"
      [] OTHER -> "TRANSMUTE_PTR_TO_REF"
RuleMsg(i, from_ty, to_ty) ==
    CASE i = 1 -> "transmute from a type (" \o Quoted(from_ty) \o ") to itself"
      [] i = 2 -> "transmute from a reference to a pointer"
      [] i = 3 -> "transmute from an integer to a pointer"
      [] i = 4 -> "transmute from a " \o Quoted(from_ty) \o " to a pointer"
      [] i = 5 -> "transmute from a type (" \o Quoted(from_ty)
                      \o ") to the type that it points to (" \o Quoted(to_ty) \o ")"
      [] i = 6 -> "transmute from a type (" \o Quoted(from_ty)
                      \o ") to a pointer to that type (" \o Quoted(to_ty) \o ")"
      [] OTHER -> "transmute from a pointer type (" \o Quoted(from_ty)
                      \o ") to a reference type (" \o Quoted(to_ty) \o ")"
Reported(i) ==
    /\ Len(diags) = 1
    /\ diags[1].lint = RuleLint(i)
    /\ diags[1].msg = RuleMsg(i, FromTy, ToTy)

\* C4: the diagnostic is that of the lowest-numbered category whose condition
\* holds.  An integer I cast to a pointer to I is IntegerToPointer, a
\* reference R cast to a pointer to R is ReferenceToPointer, a float or char F
\* cast to a pointer to F is WrongKind, and a pointer to a reference type R
\* cast to R is PointerToPointee.
C4_FirstMatchWins ==
    (Done /\ IsTransmute) =>
        /\ LET r == FirstRule(FromTy, ToTy)
           IN  IF r = 8 THEN diags = <<>> ELSE Reported(r)
        /\ (FromTy.sty \in {"TyInt", "TyUint"} /\ ToTy.sty = "TyRawPtr" /\ ToTy.mt.ty = FromTy)
              => Reported(3)
        /\ (FromTy.sty = "TyRef" /\ ToTy.sty = "TyRawPtr" /\ ToTy.mt.ty = FromTy)
              => Reported(2)
        /\ (FromTy.sty \in {"TyFloat", "TyChar"} /\ ToTy.sty = "TyRawPtr" /\ ToTy.mt.ty = FromTy)
              => Reported(4)
        /\ (FromTy.sty = "TyRawPtr" /\ FromTy.mt.ty = ToTy /\ ToTy.sty = "TyRef")
              => Reported(5)

\* transmute::<*const &T, &T>(p) is reported as crosspointer.
C4_Witness ==
    /\ Done /\ IsTransmute
    /\ FromTy = ConstPtr(ConstRef(TyStruct))
    /\ ToTy = ConstRef(TyStruct)
    /\ Len(diags) = 1
    /\ diags[1].lint = "CROSSPOINTER_TRANSMUTE"

IsRefToPtr == FromTy.sty = "TyRef" /\ ToTy.sty = "TyRawPtr"

\* C5 as stated: for a reference-to-pointer cast the single cast
\* `<arg> as <dest>` is suggested whenever the pointee types are equal,
\* whatever the two mutabilities, and the two-step cast only when they differ.
C5_SingleCastWhenPointeesEqual ==
    (Done /\ IsTransmute /\ IsRefToPtr /\ HasArgText) =>
        /\ Len(diags) = 1
        /\ diags[1].sugg =
              Some(IF FromTy.mt.ty = ToTy.mt.ty
                   THEN ArgText \o " as " \o TyToString(ToTy)
                   ELSE ArgText \o " as " \o TyToString(TyRawPtr(FromTy.mt))
                            \o " as " \o TyToString(ToTy))

\* C5 as amended: the single cast is suggested when the pointee types and the
\* mutabilities are both equal; in every other case the two-step cast through
\* the raw pointer with the reference's pointee and mutability is suggested.
C5_SingleCastWhenPointeeAndMutabilityEqual ==
    (Done /\ IsTransmute /\ IsRefToPtr /\ HasArgText) =>
        /\ Len(diags) = 1
        /\ diags[1].lint = "USELESS_TRANSMUTE"
        /\ diags[1].sugg =
              Some(IF FromTy.mt.ty = ToTy.mt.ty /\ FromTy.mt.mutbl = ToTy.mt.mutbl
                   THEN ArgText \o " as " \o TyToString(ToTy)
                   ELSE ArgText \o " as " \o TyToString(TyRawPtr(FromTy.mt))
                            \o " as " \o TyToString(ToTy))

\* transmute::<&T, *mut T>(p): equal pointees, different mutabilities.
C5_Witness ==
    /\ Done /\ IsTransmute
    /\ FromTy = ConstRef(TyStruct)
    /\ ToTy = MutPtr(TyStruct)
    /\ Len(diags) = 1
    /\ diags[1].sugg = Some("p as *const T as *mut T")

IsPtrToRef == Len(diags) = 1 /\ diags[1].lint = "TRANSMUTE_PTR_TO_REF"
DerefOfDest == IF ToTy.mt.mutbl = "MutMutable" THEN "&mut *" ELSE "&*"
CastOfDest == IF ToTy.mt.mutbl = "MutMutable" THEN "*mut " ELSE "*const "
SimpleArg == e.args[1].node \in {"ExprPath", "ExprCall", "ExprMethodCall", "ExprBlock"}

\* C6: a pointer-to-reference suggestion begins with "&*" for an immutable
\* destination and "&mut *" for a mutable one, whatever the mutability of the
\* source pointer, followed by the argument when the pointee types are equal
\* and by `(<arg> as *const <dest pointee>)`, or `*mut` for a mutable
\* destination, when they differ.
C6_DerefByDestinationMutability ==
    (Done /\ IsTransmute /\ IsPtrToRef /\ HasArgText) =>
        /\ FromTy.sty = "TyRawPtr" /\ ToTy.sty = "TyRef"
        /\ IF FromTy.mt.ty = ToTy.mt.ty
           THEN diags[1].sugg \in {Some(DerefOfDest \o ArgText),
                                   Some(DerefOfDest \o "(" \o ArgText \o ")")}
           ELSE diags[1].sugg =
                    Some(DerefOfDest \o "(" \o ArgText \o " as " \o CastOfDest
                             \o TyToString(ToTy.mt.ty) \o ")")

\* transmute::<*const i32, &mut T>(p): the destination alone is mutable.
C6_Witness ==
    /\ Done /\ IsTransmute
    /\ FromTy = ConstPtr(TyInt)
    /\ ToTy = MutRef(TyStruct)
    /\ IsPtrToRef
    /\ diags[1].sugg = Some("&mut *(p as *mut T)")

C10_IdenticalIsUselessWithoutReplacement ==
    (Done /\ IsTransmute /\ FromTy = ToTy) =>
        /\ Len(diags) = 1
        /\ diags[1].lint = "USELESS_TRANSMUTE"
        /\ diags[1].msg = "transmute from a type (" \o Quoted(FromTy) \o ") to itself"
        /\ diags[1].sugg = None

\* transmute::<*const &mut f32, *const &mut f32>(a + b).
C10_Witness ==
    /\ Done /\ IsTransmute
    /\ FromTy = ConstPtr(MutRef(TyFloat))
    /\ ToTy = FromTy
    /\ e.args[1].node = "ExprBinary"
    /\ diags = <<Diagnostic("USELESS_TRANSMUTE",
                            "transmute from a type (~*const &mut f32~) to itself", None)>>

====
